---- MODULE Spec2Model ----
(***************************************************************************)
(* Model of src/index.js: a batch driver that reads a worklist of emails   *)
(* and, for each one, runs createGithubAccount: launch a browser, fill     *)
(* five signup fields concurrently (Promise.all), configure the account,   *)
(* change the avatar, close the browser.                                   *)
(*                                                                         *)
(* A session is identified by the position of its email in the worklist.   *)
(* The remote page is the environment: which element is present, visible   *)
(* or enabled at the moment of a call is drawn with \E, an unbounded wait  *)
(* ({timeout: 0}) may stay pending for ever, and a wait without that       *)
(* option may end in puppeteer's TimeoutError.                             *)
(*                                                                         *)
(* Two levels of detail share the driver and the orchestrator:             *)
(*   Spec       the batch; a field step is seen as the promise it returns  *)
(*   SpecSteps  one email; a field step advances from await to await       *)
(* and further specifications look at one part each:                       *)
(*   FairSpec       Spec with every enabled step taken in the end          *)
(*   SpecLines      Spec from the reading of a line of emails.txt on       *)
(*   SpecClick      clickVisibleContinue on every list of candidates       *)
(*   SpecFunctions  the username derivation and generatePassword           *)
(***************************************************************************)
EXTENDS Integers, Sequences, FiniteSets, TLC

\* ------------------------------------------------------------------ bounds

\* Longest worklist drawn in Init (segments of the lines of emails.txt).
MaxEntries == 2

\* Length of the generated password (stands for the default of 20).
PasswordLength == 2

\* Longest candidate list handed to clickVisibleContinue.
MaxButtons == 5

\* Longest line of emails.txt drawn in SpecLines.
MaxLine == 3

\* Longest email the username is derived from in SpecFunctions.
MaxEmail == 3

\* Largest length, of either sign, handed to generatePassword.
MaxLength == 2

\* ------------------------------------------------------------------ values

\* The entries of the worklist after split(',') and trim(): strings, as
\* sequences of characters.  The empty string is an entry the driver skips.
\* Sessions are told apart by their position in the worklist.
Emails == { <<"a", "@", "b">> }

Entries == Emails \cup { <<>> }

Digits == {"0", "1", "2", "3", "4", "5", "6", "7", "8", "9"}

Lower == {"a", "b", "c", "d", "e", "f", "g", "h", "i", "j", "k", "l", "m",
          "n", "o", "p", "q", "r", "s", "t", "u", "v", "w", "x", "y", "z"}

Upper == {"A", "B", "C", "D", "E", "F", "G", "H", "I", "J", "K", "L", "M",
          "N", "O", "P", "Q", "R", "S", "T", "U", "V", "W", "X", "Y", "Z"}

\* The character class [a-zA-Z0-9] of the username's regular expression.
AlphaNum == Digits \cup Lower \cup Upper

\* Characters String.prototype.trim() strips that a line can hold.
WhiteSpace == {" ", "\t"}

\* The characters of the lines drawn: letters, the separator, a blank.
LineChars == {"a", "b", ",", " "}

Lines == UNION { [1..n -> LineChars] : n \in 0..MaxLine }

\* The characters of the emails the username is derived from.
EmailChars == {"a", "Z", "5", ".", "+", "@"}

EmailStrings == UNION { [1..n -> EmailChars] : n \in 0..MaxEmail }

\* generatePassword's default alphabet, indexed from 1.
Characters ==
  <<"0", "1", "2", "3", "4", "5", "6", "7", "8", "9",
    "A", "B", "C", "D", "E", "F", "G", "H", "I", "J", "K", "L", "M",
    "N", "O", "P", "Q", "R", "S", "T", "U", "V", "W", "X", "Y", "Z",
    "a", "b", "c", "d", "e", "f", "g", "h", "i", "j", "k", "l", "m",
    "n", "o", "p", "q", "r", "s", "t", "u", "v", "w", "x", "y", "z",
    "~", "!", "@", "-", "#", "$">>

\* Values crypto.randomFillSync can put into an element of the Uint32Array:
\* the least, the two around the alphabet's size and a large one.
RandomWords == {0, Len(Characters) - 1, Len(Characters), 2147483647}

Lengths == (0 - MaxLength)..MaxLength

\* The five field steps, in the order Promise.all receives them.
FieldSteps == {"enterUsername", "enterRejectAnnouncements", "enterPassword",
               "waitForUserSolvedCaptcha", "enterEmail"}

\* The steps that type through page.keyboard.
TypingSteps == {"enterUsername", "enterRejectAnnouncements", "enterPassword",
                "enterEmail"}

\* Every form step createGithubAccount reaches, directly or not.
FormSteps == FieldSteps \cup
             {"chooseAccountConfigurations", "continueRecommendedPlanPage",
              "continueForFree", "openAccountNavigationSidebar",
              "openSettingsPage", "showUploadButton", "uploadAcatar",
              "clickUploadPhoto", "submitAvatar"}

\* What a rejected promise carries.
Errors == {"TimeoutError", "ReferenceError", "TypeError", "NavigationError",
           "Email exist"}

\* Identifiers bound at module level of index.js (imports and functions).
ModuleScope == {"fs", "readline", "crypto", "puppeteer", "StealthPlugin",
                "generatePassword", "getRandomTimeout", "startBrowser",
                "clickVisibleContinue", "clickOnEmailField",
                "checkEmailExistOrInvalid", "enterEmail", "enterPassword",
                "enterUsername", "enterRejectAnnouncements",
                "waitForUserSolvedCaptcha", "chooseAccountConfigurations",
                "continueRecommendedPlanPage", "continueForFree",
                "setAccountConfiguration", "openAccountNavigationSidebar",
                "openSettingsPage", "showUploadButton", "clickUploadPhoto",
                "submitAvatar", "uploadAcatar", "changeUserAvatar",
                "createGithubAccount"}

\* Identifiers visible inside checkEmailExistOrInvalid(page): its parameter,
\* its locals and the module's bindings.  createGithubAccount's local
\* `browser` and enterEmail's parameter `browser` are not among them.
CheckEmailScope == {"page", "isExistMailP", "isEmailExist"} \cup ModuleScope

\* ------------------------------------------------------------------ state

VARIABLES
  worklist,    \* the entries the driver iterates, in file order
  idx,         \* the driver's cursor: the entry it is at
  dpc,         \* the driver: "loop", "await", "done" or "crashed"
  log,         \* console.log output, in order
  invoked,     \* the sessions createGithubAccount was called for, in order
  browser,     \* per session: "none", "open" or "closed"
  closeCalls,  \* per session: completed calls of browser.close()
  opc,         \* per session: where createGithubAccount is
  oerr,        \* per session: what createGithubAccount rejected with
  task,        \* per session and field step: the state of its promise
  terr,        \* per session and field step: what its promise rejected with
  calls,       \* per session and form step: times the step was invoked
  emailShown,  \* per session: the check found the error paragraph shown
  spc,         \* per session and field step: the await it is suspended at
  typed,       \* per session and typing step: keys it has pressed so far
  keyboard,    \* per session: the step page.keyboard pressed a key for last
  interleaved, \* per session: the steps whose text another step's key split
  clicks,      \* per session and field step: clicks its clicker performed
  completed,   \* per session: the steps of the chain that have returned
  handed,      \* per session: the steps that handed, and clicked, a disabled button
  sub,         \* per session: where inside the awaited step of the chain it is
  upload,      \* per session: uploadAcatar's dialog wait, its click, its file
  lines,       \* the lines of emails.txt
  lno,         \* the number of lines the driver has read
  buttons,     \* clickVisibleContinue's argument: each handle's visibility
  clicker,     \* clickVisibleContinue's call: what it evaluated and clicked
  derived,     \* the username derivation: its email, its result
  generated    \* generatePassword's call: its length, its result

vars == <<worklist, idx, dpc, log, invoked, browser, closeCalls, opc, oerr,
          task, terr, calls, emailShown, spc, typed, keyboard, interleaved,
          clicks, completed, handed, sub, upload, lines, lno, buttons,
          clicker, derived, generated>>

batchVars == <<worklist, idx, dpc, log, invoked, browser, closeCalls, opc,
               oerr, task, terr, calls, emailShown, spc, typed, keyboard,
               interleaved, clicks, completed, handed, sub, upload, lines,
               lno>>

clickerVars == <<buttons, clicker>>

functionVars == <<derived, generated>>

\* What the actions of the driver, of createGithubAccount and of the field
\* steps leave alone unless they say otherwise.
restVars == <<handed, sub, upload, lines, lno, clickerVars, functionVars>>

Sessions == 1..Len(worklist)

\* ------------------------------------------------------------- functions

\* email.split("@")[0]: the characters before the first "@", all of them
\* when there is none.
RECURSIVE BeforeAt(_)
BeforeAt(str) ==
  IF str = <<>> \/ Head(str) = "@" THEN <<>>
  ELSE <<Head(str)>> \o BeforeAt(Tail(str))

\* Mutant of ReplaceNonAlphaNum: the pattern without its g flag, which
\* replaces the first match only.
ReplaceFirstNonAlphaNum(str) ==
  [i \in 1..Len(str) |->
     IF str[i] \notin AlphaNum /\ \A j \in 1..(i - 1) : str[j] \in AlphaNum
     THEN "x" ELSE str[i]]

\* .replace(/[^a-zA-Z0-9]/g, 'x')
ReplaceNonAlphaNum(str) ==
  [i \in 1..Len(str) |-> IF str[i] \in AlphaNum THEN str[i] ELSE "x"]

\* The username createGithubAccount derives from the email.
Username(email) == ReplaceNonAlphaNum(BeforeAt(email))

\* The number of keys page.keyboard.type presses for a step's text.
TextLength(step, email) ==
  CASE step = "enterUsername"            -> Len(Username(email))
    [] step = "enterPassword"            -> PasswordLength
    [] step = "enterRejectAnnouncements" -> 1
    [] step = "enterEmail"               -> Len(email)

\* line.split(','): the segments between the commas, cur being the segment
\* collected so far.  A line without a comma is one segment.
RECURSIVE SplitComma(_, _)
SplitComma(str, cur) ==
  IF str = <<>> THEN <<cur>>
  ELSE IF Head(str) = "," THEN <<cur>> \o SplitComma(Tail(str), <<>>)
  ELSE SplitComma(Tail(str), Append(cur, Head(str)))

Split(str) == SplitComma(str, <<>>)

RECURSIVE TrimStart(_)
TrimStart(str) ==
  IF str # <<>> /\ Head(str) \in WhiteSpace THEN TrimStart(Tail(str)) ELSE str

RECURSIVE TrimEnd(_)
TrimEnd(str) ==
  IF str # <<>> /\ str[Len(str)] \in WhiteSpace
  THEN TrimEnd(SubSeq(str, 1, Len(str) - 1))
  ELSE str

\* Mutant of Trim: trimStart() in its place.
TrimStartOnly(str) == TrimStart(str)

\* item.trim()
Trim(str) == TrimEnd(TrimStart(str))

\* line.split(',').map(item => item.trim())
SplitTrim(str) == [i \in 1..Len(Split(str)) |-> Trim(Split(str)[i])]

\* Mutant of GeneratePassword: a negative length taken as zero.
GeneratePasswordClamped(length, words) ==
  [pc |-> "returned", length |-> length,
   password |-> [i \in 1..length |-> Characters[(words[i] % Len(Characters)) + 1]]]

\* generatePassword(length): new Uint32Array(length) raises RangeError for a
\* negative length; otherwise element i, filled with words[i], selects
\* characters[x % characters.length], and join('') concatenates.
GeneratePassword(length, words) ==
  IF length < 0
  THEN [pc |-> "raised", length |-> length, password |-> <<>>]
  ELSE [pc |-> "returned", length |-> length,
        password |-> [i \in 1..length |->
                        Characters[(words[i] % Len(Characters)) + 1]]]

\* clickVisibleContinue's loop from candidate i on.  vis[i] is what the
\* visibility evaluation of candidate i returns when it runs.  The result
\* lists the candidates evaluated and those clicked, in order.
\* Mutant of ClickLoop: the loop without its break.
RECURSIVE ClickLoopNoBreak(_, _, _)
ClickLoopNoBreak(vis, i, acc) ==
  IF i > Len(vis) THEN acc
  ELSE LET seen == [acc EXCEPT !.evaluated = Append(@, i)]
       IN  ClickLoopNoBreak(vis, i + 1,
             IF vis[i] THEN [seen EXCEPT !.clicked = Append(@, i)] ELSE seen)

\* clickVisibleContinue's for loop, with its break after the click.
RECURSIVE ClickLoop(_, _, _)
ClickLoop(vis, i, acc) ==
  IF i > Len(vis) THEN acc
  ELSE LET seen == [acc EXCEPT !.evaluated = Append(@, i)]
       IN  IF vis[i]
           THEN [seen EXCEPT !.clicked = Append(@, i)]     \* click, break
           ELSE ClickLoop(vis, i + 1, seen)

ClickVisibleContinue(vis) ==
  ClickLoop(vis, 1, [evaluated |-> <<>>, clicked |-> <<>>])

\* The candidate lists a page can return for a button query.
ButtonLists == UNION { [1..n -> BOOLEAN] : n \in 0..MaxButtons }

\* The numbers of clicks a call of clickVisibleContinue can perform.
ClickCounts == { Len(ClickVisibleContinue(vis).clicked) : vis \in ButtonLists }

\* The buttons a page can hold whose text a step's query matches, in
\* document order, each with or without @disabled, visible or not.
PageButtons ==
  UNION { [1..n -> [disabled : BOOLEAN, visible : BOOLEAN]] : n \in 0..MaxButtons }

\* page.$x('//button[contains(., "Continue")]'), enterEmail's query.
AnyButton(page) == page

\* page.$x('//button[contains(., ...)][not(@disabled)]'), the query of the
\* other steps.
NotDisabled(page) == SelectSeq(page, LAMBDA b : ~b.disabled)

\* A step hands the candidates to clickVisibleContinue: the number of
\* clicks, whether a candidate was disabled when collected, whether the
\* click landed on such a one.
Handing(candidates) ==
  LET c == ClickVisibleContinue([i \in 1..Len(candidates) |-> candidates[i].visible])
  IN  [clicks |-> Len(c.clicked),
       disabled |-> \E i \in 1..Len(candidates) : candidates[i].disabled,
       hit |-> c.clicked # <<>> /\ candidates[c.clicked[1]].disabled]

HandingAny == { Handing(AnyButton(page)) : page \in PageButtons }

HandingNotDisabled == { Handing(NotDisabled(page)) : page \in PageButtons }

\* What the query and the clicker of field step t can come to.
ClickOutcomes(t) == IF t = "enterEmail" THEN HandingAny ELSE HandingNotDisabled

\* What `await browser.close(); throw "Email exist"` does inside
\* checkEmailExistOrInvalid: an identifier that is not in scope raises
\* ReferenceError before anything is closed.
CloseInCheck ==
  IF "browser" \in CheckEmailScope
  THEN [closed |-> TRUE, error |-> "Email exist"]
  ELSE [closed |-> FALSE, error |-> "ReferenceError"]

\* The worklists Init draws.
Worklists == UNION { [1..n -> Entries] : n \in 0..MaxEntries }

PerSession(wl, v) == [s \in 1..Len(wl) |-> v]

\* ------------------------------------------------------------------- init

\* uploadAcatar not called yet.
NoUpload == [chooser |-> "none", click |-> "none", file |-> "none"]

\* Mutant of UploadStart: clickUploadPhoto called, and page.waitForFileChooser
\* only after it has returned.
UploadStartClickFirst == [chooser |-> "none", click |-> "label", file |-> "none"]

\* uploadAcatar builds the array for Promise.all: page.waitForFileChooser()
\* is called and the wait for the dialog registered, then clickUploadPhoto
\* is called and runs to its wait for the label.
UploadStart == [chooser |-> "waiting", click |-> "label", file |-> "none"]

\* What calling step f does to uploadAcatar's state.
Started(u, f) == IF f = "uploadAcatar" THEN UploadStart ELSE u

InitBatch(wl) ==
  /\ worklist = wl
  /\ idx = 1
  /\ dpc = "loop"
  /\ log = <<>>
  /\ invoked = <<>>
  /\ browser = PerSession(wl, "none")
  /\ closeCalls = PerSession(wl, 0)
  /\ opc = PerSession(wl, "idle")
  /\ oerr = PerSession(wl, "none")
  /\ task = PerSession(wl, [t \in FieldSteps |-> "none"])
  /\ terr = PerSession(wl, [t \in FieldSteps |-> "none"])
  /\ calls = PerSession(wl, [f \in FormSteps |-> 0])
  /\ emailShown = PerSession(wl, FALSE)
  /\ spc = PerSession(wl, [t \in FieldSteps |-> "none"])
  /\ typed = PerSession(wl, [t \in TypingSteps |-> 0])
  /\ keyboard = PerSession(wl, "none")
  /\ interleaved = PerSession(wl, {})
  /\ clicks = PerSession(wl, [t \in FieldSteps |-> 0])
  /\ completed = PerSession(wl, {})
  /\ handed = PerSession(wl, [candidate |-> {}, clicked |-> {}])
  /\ sub = PerSession(wl, "entry")
  /\ upload = PerSession(wl, NoUpload)

IdleClicker ==
  /\ buttons = <<>>
  /\ clicker = [pc |-> "idle", evaluated |-> <<>>, clicked |-> <<>>]

IdleFunctions ==
  /\ derived = [pc |-> "idle", email |-> <<>>, username |-> <<>>]
  /\ generated = [pc |-> "idle", length |-> 0, password |-> <<>>]

\* In Spec the driver has read every line: worklist holds their segments.
Init ==
  /\ \E wl \in Worklists : InitBatch(wl)
  /\ lines = <<>>
  /\ lno = 0
  /\ IdleClicker
  /\ IdleFunctions

\* ----------------------------------------------------------------- driver

\* The state of n sessions not started yet, appended to v.
Grow(v, n, init) == v \o [i \in 1..n |-> init]

\* for await (const line of readInterface): the inner loop is over and the
\* file holds another line, which is split and trimmed; the inner loop then
\* runs over its segments.
DriverReadLine ==
  /\ dpc = "loop"
  /\ idx > Len(worklist)
  /\ lno < Len(lines)
  /\ lno' = lno + 1
  /\ LET emails == SplitTrim(lines[lno + 1])
         n == Len(emails)
     IN  /\ worklist' = worklist \o emails
         /\ browser' = Grow(browser, n, "none")
         /\ closeCalls' = Grow(closeCalls, n, 0)
         /\ opc' = Grow(opc, n, "idle")
         /\ oerr' = Grow(oerr, n, "none")
         /\ task' = Grow(task, n, [t \in FieldSteps |-> "none"])
         /\ terr' = Grow(terr, n, [t \in FieldSteps |-> "none"])
         /\ calls' = Grow(calls, n, [f \in FormSteps |-> 0])
         /\ emailShown' = Grow(emailShown, n, FALSE)
         /\ spc' = Grow(spc, n, [t \in FieldSteps |-> "none"])
         /\ typed' = Grow(typed, n, [t \in TypingSteps |-> 0])
         /\ keyboard' = Grow(keyboard, n, "none")
         /\ interleaved' = Grow(interleaved, n, {})
         /\ clicks' = Grow(clicks, n, [t \in FieldSteps |-> 0])
         /\ completed' = Grow(completed, n, {})
         /\ handed' = Grow(handed, n, [candidate |-> {}, clicked |-> {}])
         /\ sub' = Grow(sub, n, "entry")
         /\ upload' = Grow(upload, n, NoUpload)
  /\ UNCHANGED <<idx, dpc, log, invoked, lines>>
  /\ UNCHANGED <<clickerVars, functionVars>>

\* Mutant of DriverSkipEmpty: break in the place of continue.
DriverSkipBreak ==
  /\ dpc = "loop"
  /\ idx <= Len(worklist)
  /\ worklist[idx] = <<>>
  /\ idx' = Len(worklist) + 1
  /\ UNCHANGED <<worklist, dpc, log, invoked, browser, closeCalls, opc, oerr,
                 task, terr, calls, emailShown, spc, typed, keyboard,
                 interleaved, clicks, completed>>
  /\ UNCHANGED restVars

\* The inner loop reaches an entry that is empty after trim(): continue.
DriverSkipEmpty ==
  /\ dpc = "loop"
  /\ idx <= Len(worklist)
  /\ worklist[idx] = <<>>
  /\ idx' = idx + 1
  /\ UNCHANGED <<worklist, dpc, log, invoked, browser, closeCalls, opc, oerr,
                 task, terr, calls, emailShown, spc, typed, keyboard, interleaved, clicks, completed>>
  /\ UNCHANGED restVars

\* The driver calls createGithubAccount(email), which logs the email and
\* calls startBrowser before its first await.
DriverInvoke ==
  /\ dpc = "loop"
  /\ idx <= Len(worklist)
  /\ worklist[idx] # <<>>
  /\ dpc' = "await"
  /\ invoked' = Append(invoked, idx)
  /\ log' = Append(log, <<"Account email:", worklist[idx]>>)
  /\ opc' = [opc EXCEPT ![idx] = "launch"]
  /\ UNCHANGED <<worklist, idx, browser, closeCalls, oerr, task, terr, calls,
                 emailShown, spc, typed, keyboard, interleaved, clicks, completed>>
  /\ UNCHANGED restVars

\* createGithubAccount resolved: the try block ends, the loop goes on.
DriverResume ==
  /\ dpc = "await"
  /\ opc[idx] = "resolved"
  /\ dpc' = "loop"
  /\ idx' = idx + 1
  /\ UNCHANGED <<worklist, log, invoked, browser, closeCalls, opc, oerr, task,
                 terr, calls, emailShown, spc, typed, keyboard, interleaved, clicks, completed>>
  /\ UNCHANGED restVars

\* Mutant of DriverCatch: the error is thrown again and ends the driver.
DriverRethrow ==
  /\ dpc = "await"
  /\ opc[idx] = "rejected"
  /\ dpc' = "crashed"
  /\ UNCHANGED <<worklist, idx, log, invoked, browser, closeCalls, opc, oerr,
                 task, terr, calls, emailShown, spc, typed, keyboard,
                 interleaved, clicks, completed>>
  /\ UNCHANGED restVars

\* Mutant of DriverCatch: the email is tried again after a failure.
DriverRetry ==
  /\ dpc = "await"
  /\ opc[idx] = "rejected"
  /\ log' = Append(log, <<oerr[idx]>>)
  /\ dpc' = "loop"
  /\ UNCHANGED <<worklist, idx, invoked, browser, closeCalls, opc, oerr, task,
                 terr, calls, emailShown, spc, typed, keyboard, interleaved,
                 clicks, completed>>
  /\ UNCHANGED restVars

\* createGithubAccount rejected: catch (error) { console.log(error) }.
DriverCatch ==
  /\ dpc = "await"
  /\ opc[idx] = "rejected"
  /\ log' = Append(log, <<oerr[idx]>>)
  /\ dpc' = "loop"
  /\ idx' = idx + 1
  /\ UNCHANGED <<worklist, invoked, browser, closeCalls, opc, oerr, task,
                 terr, calls, emailShown, spc, typed, keyboard, interleaved, clicks, completed>>
  /\ UNCHANGED restVars

\* The last line has been read: the async function of the driver returns.
DriverDone ==
  /\ dpc = "loop"
  /\ idx > Len(worklist)
  /\ lno = Len(lines)
  /\ dpc' = "done"
  /\ UNCHANGED <<worklist, idx, log, invoked, browser, closeCalls, opc, oerr,
                 task, terr, calls, emailShown, spc, typed, keyboard, interleaved, clicks, completed>>
  /\ UNCHANGED restVars

\* ----------------------------------------------------------- orchestrator

\* Mutant of Chain: changeUserAvatar awaited before setAccountConfiguration.
ChainAvatarFirst ==
  <<"openAccountNavigationSidebar", "openSettingsPage", "showUploadButton",
    "uploadAcatar", "chooseAccountConfigurations",
    "continueRecommendedPlanPage", "continueForFree">>

\* The form steps createGithubAccount awaits one after the other once the
\* fields are filled: setAccountConfiguration's three, changeUserAvatar's
\* four.
Chain == <<"chooseAccountConfigurations", "continueRecommendedPlanPage",
           "continueForFree", "openAccountNavigationSidebar",
           "openSettingsPage", "showUploadButton", "uploadAcatar">>

\* The steps setAccountConfiguration awaits.
ConfigurationSteps == {"chooseAccountConfigurations",
                       "continueRecommendedPlanPage", "continueForFree"}

\* The steps changeUserAvatar awaits.
AvatarSteps == {"openAccountNavigationSidebar", "openSettingsPage",
                "showUploadButton", "uploadAcatar"}

Position(f) == CHOOSE i \in 1..Len(Chain) : Chain[i] = f

\* What a step of the chain can throw: TimeoutError where it waits without
\* {timeout: 0}, TypeError where it dereferences the first match of a query
\* that may have matched nothing.  continueForFree waits with {timeout: 0}.
ChainErrors(f) ==
  CASE f = "chooseAccountConfigurations"  -> {"TimeoutError"}
    [] f = "continueRecommendedPlanPage"  -> {"TimeoutError"}
    [] f = "continueForFree"              -> {}
    [] f = "openAccountNavigationSidebar" -> {"TypeError"}
    [] f = "openSettingsPage"             -> {"TimeoutError"}
    [] f = "showUploadButton"             -> {"TimeoutError"}
    [] f = "uploadAcatar"                 -> {"TimeoutError"}

\* The steps that hand buttons to clickVisibleContinue and then wait for the
\* navigation.
ClickerSteps == {"chooseAccountConfigurations", "continueRecommendedPlanPage",
                 "continueForFree"}

\* Where a step of the chain can be: "entry" from its call to its click,
\* "clicked" or "unclicked" at its waitForNavigation with or without a click
\* performed, "accept" and "submit" inside uploadAcatar once the dialog is
\* there and once the file is accepted.
SubSteps == {"entry", "clicked", "unclicked", "accept", "submit"}

\* Where a step is when one of its bounded waits (or, in
\* openAccountNavigationSidebar, the dereference) can throw.
ThrowsAt(f) ==
  CASE f = "chooseAccountConfigurations"  -> {"entry", "clicked", "unclicked"}
    [] f = "continueRecommendedPlanPage"  -> {"clicked", "unclicked"}
    [] f = "continueForFree"              -> {}
    [] f = "openAccountNavigationSidebar" -> {"entry"}
    [] f = "openSettingsPage"             -> {"entry", "clicked"}
    [] f = "showUploadButton"             -> {"entry"}
    [] f = "uploadAcatar"                 -> {"entry", "submit"}

\* Mutant of ReturnsFrom: the step returns without awaiting the navigation.
ReturnsUnawaited(f) ==
  CASE f \in ClickerSteps         -> {"clicked", "unclicked"}
    [] f = "openSettingsPage"     -> {"clicked"}
    [] f = "uploadAcatar"         -> {"submit"}
    [] OTHER                      -> {"entry"}

\* Where a step is when its last await can resolve and the step return.
\* page.waitForNavigation() resolves when the page navigates, which it does
\* in answer to the click on the submit control: after a clicker that
\* clicked nothing the wait cannot resolve.
ReturnsFrom(f) ==
  CASE f \in ClickerSteps         -> {"clicked"}
    [] f = "openSettingsPage"     -> {"clicked"}
    [] f = "uploadAcatar"         -> {"submit"}
    [] OTHER                      -> {"entry"}

\* The calls counted when step f is called: uploadAcatar calls
\* clickUploadPhoto before its first await.
Called(c, f) ==
  [g \in FormSteps |->
     IF g = f \/ (f = "uploadAcatar" /\ g = "clickUploadPhoto")
     THEN c[g] + 1 ELSE c[g]]

\* The await each field step suspends at first.
FirstAwait(t) == IF t = "waitForUserSolvedCaptcha" THEN "visible" ELSE "label"

\* Mutant of JoinFields: resolved as soon as one promise is (Promise.any).
JoinFieldsAny(ts) ==
  IF \E t \in FieldSteps : ts[t] = "rejected" THEN "rejected"
  ELSE IF \E t \in FieldSteps : ts[t] = "resolved" THEN "resolved"
  ELSE "pending"

\* Promise.all over the five promises: rejected as soon as one of them is,
\* resolved once all of them are.
JoinFields(ts) ==
  IF \E t \in FieldSteps : ts[t] = "rejected" THEN "rejected"
  ELSE IF \A t \in FieldSteps : ts[t] = "resolved" THEN "resolved"
  ELSE "pending"

\* const [browser, page] = await startBrowser()
StartBrowser(s) ==
  /\ opc[s] = "launch"
  /\ browser' = [browser EXCEPT ![s] = "open"]
  /\ opc' = [opc EXCEPT ![s] = "goto"]
  /\ UNCHANGED <<worklist, idx, dpc, log, invoked, closeCalls, oerr, task,
                 terr, calls, emailShown, spc, typed, keyboard, interleaved, clicks, completed>>
  /\ UNCHANGED restVars

\* await page.goto(...) returns: the five field steps are called, each runs
\* to its first await, and Promise.all awaits their promises.
GotoLoaded(s) ==
  /\ opc[s] = "goto"
  /\ opc' = [opc EXCEPT ![s] = "fields"]
  /\ task' = [task EXCEPT ![s] = [t \in FieldSteps |-> "pending"]]
  /\ spc' = [spc EXCEPT ![s] = [t \in FieldSteps |-> FirstAwait(t)]]
  /\ calls' = [calls EXCEPT ![s] =
                 [f \in FormSteps |-> IF f \in FieldSteps THEN @[f] + 1 ELSE @[f]]]
  /\ UNCHANGED <<worklist, idx, dpc, log, invoked, browser, closeCalls, oerr,
                 terr, emailShown, typed, keyboard, interleaved, clicks, completed>>
  /\ UNCHANGED restVars

\* await page.goto(...) throws: createGithubAccount rejects.
GotoFails(s) ==
  /\ opc[s] = "goto"
  /\ opc' = [opc EXCEPT ![s] = "rejected"]
  /\ oerr' = [oerr EXCEPT ![s] = "NavigationError"]
  /\ UNCHANGED <<worklist, idx, dpc, log, invoked, browser, closeCalls, task,
                 terr, calls, emailShown, spc, typed, keyboard, interleaved, clicks, completed>>
  /\ UNCHANGED restVars

\* Mutant of SettleFrom: the error of every rejection is kept, the last one
\* winning.
SettleFromLast(s, ts, t, outcome, err) ==
  LET after == [ts EXCEPT ![t] = outcome]
      join == IF opc[s] = "fields" THEN JoinFields(after) ELSE "settled"
  IN  /\ task' = [task EXCEPT ![s] = after]
      /\ terr' = [terr EXCEPT ![s][t] = err]
      /\ spc' = [spc EXCEPT ![s] =
                   [u \in FieldSteps |->
                      CASE after[u] = "resolved" -> "done"
                        [] after[u] = "rejected" -> "failed"
                        [] OTHER                 -> @[u]]]
      /\ opc' = [opc EXCEPT ![s] =
                   CASE join = "rejected" -> "rejected"
                     [] join = "resolved" -> Chain[1]
                     [] OTHER             -> @]
      /\ oerr' = [oerr EXCEPT ![s] = IF outcome = "rejected" THEN err ELSE @]
      /\ calls' = [calls EXCEPT ![s][Chain[1]] =
                     IF join = "resolved" THEN @ + 1 ELSE @]

\* The promise of field step t settles, the promises of the session being in
\* the states ts before.  Promise.all reacts in the same turn: on the first
\* rejection createGithubAccount rejects with that error; when the last
\* promise resolves it goes on to setAccountConfiguration, which calls
\* chooseAccountConfigurations.  Once Promise.all has settled, a later
\* settlement of a step has no effect on the orchestrator.
SettleFrom(s, ts, t, outcome, err) ==
  LET after == [ts EXCEPT ![t] = outcome]
      join == IF opc[s] = "fields" THEN JoinFields(after) ELSE "settled"
  IN  /\ task' = [task EXCEPT ![s] = after]
      /\ terr' = [terr EXCEPT ![s][t] = err]
      /\ spc' = [spc EXCEPT ![s] =
                   [u \in FieldSteps |->
                      CASE after[u] = "resolved" -> "done"
                        [] after[u] = "rejected" -> "failed"
                        [] OTHER                 -> @[u]]]
      /\ opc' = [opc EXCEPT ![s] =
                   CASE join = "rejected" -> "rejected"
                     [] join = "resolved" -> Chain[1]
                     [] OTHER             -> @]
      /\ oerr' = [oerr EXCEPT ![s] = IF join = "rejected" THEN err ELSE @]
      /\ calls' = [calls EXCEPT ![s][Chain[1]] =
                     IF join = "resolved" THEN @ + 1 ELSE @]

Settle(s, t, outcome, err) == SettleFrom(s, task[s], t, outcome, err)

\* The step of the chain createGithubAccount is awaiting completes: the next
\* one is called, or, after uploadAcatar, browser.close().
ChainStepDone(s) ==
  /\ opc[s] \in ConfigurationSteps \cup AvatarSteps
  /\ sub[s] \in ReturnsFrom(opc[s])
  /\ completed' = [completed EXCEPT ![s] = @ \cup {opc[s]}]
  /\ sub' = [sub EXCEPT ![s] = "entry"]
  /\ LET i == Position(opc[s])
     IN  IF i < Len(Chain)
         THEN /\ opc' = [opc EXCEPT ![s] = Chain[i + 1]]
              /\ calls' = [calls EXCEPT ![s] = Called(@, Chain[i + 1])]
              /\ upload' = [upload EXCEPT ![s] = Started(@, Chain[i + 1])]
         ELSE /\ opc' = [opc EXCEPT ![s] = "close"]
              /\ UNCHANGED <<calls, upload>>
  /\ UNCHANGED <<worklist, idx, dpc, log, invoked, browser, closeCalls, oerr,
                 task, terr, emailShown, spc, typed, keyboard, interleaved,
                 clicks>>
  /\ UNCHANGED <<handed, lines, lno, clickerVars, functionVars>>

\* A configuration step collects the enabled buttons, sleeps and calls
\* clickVisibleContinue, which clicks or does not, and goes on to await
\* page.waitForNavigation(); openSettingsPage clicks its span itself.
ChainClick(s) ==
  /\ opc[s] \in ClickerSteps \cup {"openSettingsPage"}
  /\ sub[s] = "entry"
  /\ \E n \in (IF opc[s] \in ClickerSteps THEN ClickCounts ELSE {1}) :
       sub' = [sub EXCEPT ![s] = IF n > 0 THEN "clicked" ELSE "unclicked"]
  /\ UNCHANGED <<worklist, idx, dpc, log, invoked, browser, closeCalls, opc,
                 oerr, task, terr, calls, emailShown, spc, typed, keyboard,
                 interleaved, clicks, completed>>
  /\ UNCHANGED <<handed, upload, lines, lno, clickerVars, functionVars>>

\* What an action of uploadAcatar's first await leaves alone.
uploadRest == <<worklist, idx, dpc, log, invoked, browser, closeCalls, opc,
                oerr, task, terr, calls, emailShown, spc, typed, keyboard,
                interleaved, clicks, completed, handed, sub, lines, lno,
                clickerVars, functionVars>>

\* clickUploadPhoto: the wait for the label resolves, the label is queried
\* and el.click() runs in the page, which opens the native dialog; a dialog
\* nobody waits for at that moment is lost.
UploadPhotoClick(s) ==
  /\ opc[s] = "uploadAcatar"
  /\ sub[s] = "entry"
  /\ upload[s].click = "label"
  /\ upload' = [upload EXCEPT ![s].click = "clicked",
                              ![s].chooser = IF @ = "none" THEN "missed" ELSE @]
  /\ UNCHANGED uploadRest

\* The dialog the click opened reaches page.waitForFileChooser(), whose
\* promise resolves with the chooser.
FileChooserEvent(s) ==
  /\ opc[s] = "uploadAcatar"
  /\ sub[s] = "entry"
  /\ upload[s].click \in {"clicked", "done"}
  /\ upload[s].chooser = "waiting"
  /\ upload' = [upload EXCEPT ![s].chooser = "obtained"]
  /\ UNCHANGED uploadRest

\* clickUploadPhoto: the evaluate that clicked returns and the promise of
\* clickUploadPhoto resolves.
UploadPhotoReturned(s) ==
  /\ opc[s] = "uploadAcatar"
  /\ sub[s] = "entry"
  /\ upload[s].click = "clicked"
  /\ upload' = [upload EXCEPT ![s].click = "done"]
  /\ UNCHANGED uploadRest

\* uploadAcatar: Promise.all over waitForFileChooser and clickUploadPhoto
\* resolves, the dialog in hand and the label clicked.
FileChooserOpened(s) ==
  /\ opc[s] = "uploadAcatar"
  /\ sub[s] = "entry"
  /\ upload[s].chooser = "obtained"
  /\ upload[s].click = "done"
  /\ sub' = [sub EXCEPT ![s] = "accept"]
  /\ UNCHANGED <<worklist, idx, dpc, log, invoked, browser, closeCalls, opc,
                 oerr, task, terr, calls, emailShown, spc, typed, keyboard,
                 interleaved, clicks, completed>>
  /\ UNCHANGED <<handed, upload, lines, lno, clickerVars, functionVars>>

\* uploadAcatar: fileChooser.accept resolves; after a sleep submitAvatar is
\* called.
FileAccepted(s) ==
  /\ opc[s] = "uploadAcatar"
  /\ sub[s] = "accept"
  /\ sub' = [sub EXCEPT ![s] = "submit"]
  /\ upload' = [upload EXCEPT ![s].file = "accepted"]
  /\ calls' = [calls EXCEPT ![s] = Called(@, "submitAvatar")]
  /\ UNCHANGED <<worklist, idx, dpc, log, invoked, browser, closeCalls, opc,
                 oerr, task, terr, emailShown, spc, typed, keyboard,
                 interleaved, clicks, completed>>
  /\ UNCHANGED <<handed, lines, lno, clickerVars, functionVars>>

\* Mutant of ChainStepFails: the error is swallowed and the next step
\* called.
ChainStepFailsSwallowed(s) ==
  /\ opc[s] \in ConfigurationSteps \cup AvatarSteps
  /\ sub[s] \in ThrowsAt(opc[s])
  /\ ChainErrors(opc[s]) # {}
  /\ sub' = [sub EXCEPT ![s] = "entry"]
  /\ LET i == Position(opc[s])
     IN  IF i < Len(Chain)
         THEN /\ opc' = [opc EXCEPT ![s] = Chain[i + 1]]
              /\ calls' = [calls EXCEPT ![s] = Called(@, Chain[i + 1])]
              /\ upload' = [upload EXCEPT ![s] = Started(@, Chain[i + 1])]
         ELSE /\ opc' = [opc EXCEPT ![s] = "close"]
              /\ UNCHANGED <<calls, upload>>
  /\ UNCHANGED <<worklist, idx, dpc, log, invoked, browser, closeCalls, oerr,
                 task, terr, emailShown, spc, typed, keyboard, interleaved,
                 clicks, completed>>
  /\ UNCHANGED <<handed, lines, lno, clickerVars, functionVars>>

\* The step of the chain createGithubAccount is awaiting throws.
ChainStepFails(s) ==
  /\ opc[s] \in ConfigurationSteps \cup AvatarSteps
  /\ sub[s] \in ThrowsAt(opc[s])
  /\ (opc[s] = "uploadAcatar" /\ sub[s] = "entry") =>
       (upload[s].chooser = "waiting" \/ upload[s].click = "label")
  /\ \E err \in ChainErrors(opc[s]) :
       /\ opc' = [opc EXCEPT ![s] = "rejected"]
       /\ oerr' = [oerr EXCEPT ![s] = err]
  /\ UNCHANGED <<worklist, idx, dpc, log, invoked, browser, closeCalls, task,
                 terr, calls, emailShown, spc, typed, keyboard, interleaved, clicks, completed>>
  /\ UNCHANGED restVars

\* await browser.close() at the end of createGithubAccount, which resolves.
CloseBrowser(s) ==
  /\ opc[s] = "close"
  /\ browser' = [browser EXCEPT ![s] = "closed"]
  /\ closeCalls' = [closeCalls EXCEPT ![s] = @ + 1]
  /\ opc' = [opc EXCEPT ![s] = "resolved"]
  /\ UNCHANGED <<worklist, idx, dpc, log, invoked, oerr, task, terr, calls,
                 emailShown, spc, typed, keyboard, interleaved, clicks, completed>>
  /\ UNCHANGED restVars

\* ------------------------------------------------------------ field steps

\* checkEmailExistOrInvalid finds the paragraph "Email is invalid or already
\* taken" without a hidden attribute: it runs `await browser.close()` and
\* `throw "Email exist"`, and enterEmail's promise rejects with what that
\* raises.
EmailRejected(s) ==
  /\ emailShown' = [emailShown EXCEPT ![s] = TRUE]
  /\ browser' = [browser EXCEPT ![s] = IF CloseInCheck.closed THEN "closed" ELSE @]
  /\ closeCalls' = [closeCalls EXCEPT ![s] = IF CloseInCheck.closed THEN @ + 1 ELSE @]
  /\ Settle(s, "enterEmail", "rejected", CloseInCheck.error)

\* Where a typing step is once it has pressed n keys of its text.
AfterKeys(s, t, n) ==
  IF n < TextLength(t, worklist[s]) THEN "type"
  ELSE IF t = "enterEmail" THEN "check" ELSE "button"

\* The unbounded wait for the step's label resolves.  enterEmail then clicks
\* on the field; every typing step then calls page.keyboard.type.
LabelVisible(s, t) ==
  /\ t \in TypingSteps
  /\ spc[s][t] = "label"
  /\ spc' = [spc EXCEPT ![s][t] = AfterKeys(s, t, 0)]
  /\ UNCHANGED <<worklist, idx, dpc, log, invoked, browser, closeCalls, opc,
                 oerr, task, terr, calls, emailShown, typed, keyboard,
                 interleaved, clicks, completed>>
  /\ UNCHANGED restVars

\* page.keyboard.type(text, {delay: 100}) presses the next key of the step's
\* text and sleeps.  The keyboard is the page's only one and the steps of a
\* session share it: a key that follows another step's key after the step
\* began to type splits the step's text.
PressKey(s, t) ==
  /\ t \in TypingSteps
  /\ spc[s][t] = "type"
  /\ typed' = [typed EXCEPT ![s][t] = @ + 1]
  /\ keyboard' = [keyboard EXCEPT ![s] = t]
  /\ interleaved' = [interleaved EXCEPT ![s] =
                       IF typed[s][t] >= 1 /\ keyboard[s] # t
                       THEN @ \cup {t} ELSE @]
  /\ spc' = [spc EXCEPT ![s][t] = AfterKeys(s, t, typed[s][t] + 1)]
  /\ UNCHANGED <<worklist, idx, dpc, log, invoked, browser, closeCalls, opc,
                 oerr, task, terr, calls, emailShown, clicks, completed>>
  /\ UNCHANGED restVars

\* enterEmail's check after typing: the paragraph is absent or hidden and the
\* step goes on to wait for the button, or it is shown.
EmailCheck(s) ==
  /\ spc[s]["enterEmail"] = "check"
  /\ \E present \in BOOLEAN, hiddenIsNull \in BOOLEAN :
       IF present /\ hiddenIsNull
       THEN /\ EmailRejected(s)
            /\ UNCHANGED <<worklist, idx, dpc, log, invoked, typed, keyboard,
                           interleaved, clicks, completed>>
       ELSE /\ spc' = [spc EXCEPT ![s]["enterEmail"] = "button"]
            /\ UNCHANGED <<worklist, idx, dpc, log, invoked, browser,
                           closeCalls, opc, oerr, task, terr, calls,
                           emailShown, typed, keyboard, interleaved, clicks, completed>>
  /\ UNCHANGED restVars

\* waitForUserSolvedCaptcha's first wait, {timeout: 0, visible: true}, finds
\* the "Create account" button visible.
CaptchaVisible(s) ==
  /\ spc[s]["waitForUserSolvedCaptcha"] = "visible"
  /\ spc' = [spc EXCEPT ![s]["waitForUserSolvedCaptcha"] = "enabled"]
  /\ UNCHANGED <<worklist, idx, dpc, log, invoked, browser, closeCalls, opc,
                 oerr, task, terr, calls, emailShown, typed, keyboard,
                 interleaved, clicks, completed>>
  /\ UNCHANGED restVars

\* The wait for the step's button without @disabled, which carries no
\* timeout option, finds the button in time; the step sleeps, queries its
\* buttons and hands them to clickVisibleContinue, and its promise resolves
\* whatever the clicker did.
ButtonEnabled(s, t) ==
  /\ spc[s][t] \in {"button", "enabled"}
  /\ \E h \in ClickOutcomes(t) :
       /\ clicks' = [clicks EXCEPT ![s][t] = @ + h.clicks]
       /\ handed' = [handed EXCEPT
                       ![s].candidate = IF h.disabled THEN @ \cup {t} ELSE @,
                       ![s].clicked = IF h.hit THEN @ \cup {t} ELSE @]
  /\ Settle(s, t, "resolved", "none")
  /\ UNCHANGED <<worklist, idx, dpc, log, invoked, browser, closeCalls,
                 emailShown, typed, keyboard, interleaved, completed>>
  /\ UNCHANGED <<sub, upload, lines, lno, clickerVars, functionVars>>

\* The same wait reaches puppeteer's default timeout: TimeoutError.
ButtonTimeout(s, t) ==
  /\ spc[s][t] \in {"button", "enabled"}
  /\ Settle(s, t, "rejected", "TimeoutError")
  /\ UNCHANGED <<worklist, idx, dpc, log, invoked, browser, closeCalls,
                 emailShown, typed, keyboard, interleaved, clicks, completed>>
  /\ UNCHANGED restVars

\* ------------------------------------------- field steps, seen as promises

\* The states the five promises can be in when step t settles Promise.all:
\* each other step has resolved or is still pending.  A step left pending
\* goes on in its session afterwards, which createGithubAccount and the
\* driver never observe; SpecSteps follows such steps.
Before(t) ==
  { [u \in FieldSteps |-> IF u \in R THEN "resolved" ELSE "pending"] :
      R \in SUBSET (FieldSteps \ {t}) }

\* Promise.all resolves: the last of the five promises resolves.
FieldsResolve(s) ==
  /\ opc[s] = "fields"
  /\ \E t \in FieldSteps :
       SettleFrom(s, [u \in FieldSteps |-> IF u = t THEN "pending" ELSE "resolved"],
                  t, "resolved", "none")
  /\ UNCHANGED <<worklist, idx, dpc, log, invoked, browser, closeCalls,
                 emailShown, typed, keyboard, interleaved, clicks, completed>>
  /\ UNCHANGED restVars

\* Promise.all rejects: a step's wait for its button raises TimeoutError
\* while the others have resolved or are pending.
FieldsTimeout(s) ==
  /\ opc[s] = "fields"
  /\ \E t \in FieldSteps : \E ts \in Before(t) :
       SettleFrom(s, ts, t, "rejected", "TimeoutError")
  /\ UNCHANGED <<worklist, idx, dpc, log, invoked, browser, closeCalls,
                 emailShown, typed, keyboard, interleaved, clicks, completed>>
  /\ UNCHANGED restVars

\* Promise.all rejects: enterEmail's check finds the paragraph shown while
\* the others have resolved or are pending.
FieldsEmailRejected(s) ==
  /\ opc[s] = "fields"
  /\ \E ts \in Before("enterEmail") :
       /\ emailShown' = [emailShown EXCEPT ![s] = TRUE]
       /\ browser' = [browser EXCEPT ![s] =
                        IF CloseInCheck.closed THEN "closed" ELSE @]
       /\ closeCalls' = [closeCalls EXCEPT ![s] =
                           IF CloseInCheck.closed THEN @ + 1 ELSE @]
       /\ SettleFrom(s, ts, "enterEmail", "rejected", CloseInCheck.error)
  /\ UNCHANGED <<worklist, idx, dpc, log, invoked, typed, keyboard,
                 interleaved, clicks, completed>>
  /\ UNCHANGED restVars

\* ---------------------------------------------------------------- clicker

\* A call clickVisibleContinue(buttons), from entry to return.
ClickerCall ==
  /\ clicker.pc = "idle"
  /\ clicker' = [pc |-> "returned",
                 evaluated |-> ClickVisibleContinue(buttons).evaluated,
                 clicked |-> ClickVisibleContinue(buttons).clicked]
  /\ UNCHANGED buttons
  /\ UNCHANGED batchVars
  /\ UNCHANGED functionVars

\* -------------------------------------------------------------- functions

\* const username = email.split("@")[0].replace(/[^a-zA-Z0-9]/g, 'x')
DeriveUsername ==
  /\ derived.pc = "idle"
  /\ derived' = [derived EXCEPT !.pc = "returned",
                                !.username = Username(derived.email)]
  /\ UNCHANGED generated
  /\ UNCHANGED batchVars
  /\ UNCHANGED clickerVars

\* A call generatePassword(length), the random source filling the array.
GeneratePasswordCall ==
  /\ generated.pc = "idle"
  /\ \E words \in [1..generated.length -> RandomWords] :
       generated' = GeneratePassword(generated.length, words)
  /\ UNCHANGED derived
  /\ UNCHANGED batchVars
  /\ UNCHANGED clickerVars

\* --------------------------------------------------------- specifications

Driver ==
  \/ DriverSkipEmpty
  \/ DriverInvoke
  \/ DriverResume
  \/ DriverCatch
  \/ DriverDone

Orchestrator(s) ==
  \/ StartBrowser(s)
  \/ GotoLoaded(s)
  \/ GotoFails(s)
  \/ ChainStepDone(s)
  \/ ChainClick(s)
  \/ UploadPhotoClick(s)
  \/ FileChooserEvent(s)
  \/ UploadPhotoReturned(s)
  \/ FileChooserOpened(s)
  \/ FileAccepted(s)
  \/ ChainStepFails(s)
  \/ CloseBrowser(s)

Next ==
  \/ Driver
  \/ \E s \in Sessions :
       \/ Orchestrator(s)
       \/ FieldsResolve(s)
       \/ FieldsTimeout(s)
       \/ FieldsEmailRejected(s)

Spec == Init /\ [][Next]_vars

\* Spec with every wait of the flow resolving or failing in the end as long
\* as it can, and the event loop running every continuation that is ready.
FairSpec == Spec /\ WF_vars(Next)

\* One email: the worklist holds no entry to skip.
InitSteps ==
  /\ \E e \in Emails : InitBatch(<<e>>)
  /\ lines = <<>>
  /\ lno = 0
  /\ IdleClicker
  /\ IdleFunctions

NextSteps ==
  \/ DriverInvoke
  \/ DriverResume
  \/ DriverCatch
  \/ DriverDone
  \/ \E s \in Sessions :
       \/ Orchestrator(s)
       \/ EmailCheck(s)
       \/ CaptchaVisible(s)
       \/ \E t \in FieldSteps :
            \/ LabelVisible(s, t)
            \/ PressKey(s, t)
            \/ ButtonEnabled(s, t)
            \/ ButtonTimeout(s, t)

SpecSteps == InitSteps /\ [][NextSteps]_vars

InitClick ==
  /\ InitBatch(<<>>)
  /\ lines = <<>>
  /\ lno = 0
  /\ buttons \in ButtonLists
  /\ clicker = [pc |-> "idle", evaluated |-> <<>>, clicked |-> <<>>]
  /\ IdleFunctions

NextClick == ClickerCall

SpecClick == InitClick /\ [][NextClick]_vars

\* The driver from the first line of emails.txt on.
InitLines ==
  /\ InitBatch(<<>>)
  /\ \E l \in Lines : lines = <<l>>
  /\ lno = 0
  /\ IdleClicker
  /\ IdleFunctions

NextLines ==
  \/ DriverReadLine
  \/ Next

SpecLines == InitLines /\ [][NextLines]_vars

\* The two functions of strings, each on every input up to the bounds.
InitFunctions ==
  /\ InitBatch(<<>>)
  /\ lines = <<>>
  /\ lno = 0
  /\ IdleClicker
  /\ \E e \in EmailStrings :
       derived = [pc |-> "idle", email |-> e, username |-> <<>>]
  /\ \E n \in Lengths :
       generated = [pc |-> "idle", length |-> n, password |-> <<>>]

NextFunctions ==
  \/ DeriveUsername
  \/ GeneratePasswordCall

SpecFunctions == InitFunctions /\ [][NextFunctions]_vars

\* ----------------------------------------------------------------- claims

OpenBrowsers == {s \in Sessions : browser[s] = "open"}

Settled(s) == opc[s] \in {"resolved", "rejected"}

\* C1: at most one browser session is open at any time of a batch run,
\* whether the earlier email's flow ended in success or in failure.
C1_AtMostOneBrowserOpen == Cardinality(OpenBrowsers) <= 1

\* The failure createGithubAccount rejected with is the one enterEmail
\* raised on finding the error paragraph shown.
EmailExistFailure(s) ==
  /\ emailShown[s]
  /\ opc[s] = "rejected"
  /\ task[s]["enterEmail"] = "rejected"
  /\ oerr[s] = terr[s]["enterEmail"]

\* C2: when the email step finds the paragraph present and not hidden,
\* browser.close of that session has been invoked exactly once by the time
\* the failure reaches the batch driver.
C2_ClosedOnceOnEmailExist ==
  \A s \in Sessions : EmailExistFailure(s) => closeCalls[s] = 1

ChainStarted(s) ==
  \E f \in ConfigurationSteps \cup AvatarSteps : calls[s][f] > 0

\* C3: account configuration starts only after all five field steps have
\* resolved; if any of the five fails, neither account configuration nor
\* avatar change is ever started for that email.
C3_ConfigurationAfterAllFields ==
  \A s \in Sessions :
    /\ ChainStarted(s) => \A t \in FieldSteps : task[s][t] = "resolved"
    /\ (\E t \in FieldSteps : task[s][t] = "rejected") => ~ChainStarted(s)

C3_Witness ==
  \E s \in Sessions :
    /\ opc[s] = "chooseAccountConfigurations"
    /\ calls[s]["chooseAccountConfigurations"] = 1

\* C4: in a flow where every step succeeds, each form step is invoked
\* exactly once, account configuration has completed before any avatar step
\* starts, and the browser is closed exactly once, after uploadAcatar has
\* completed.
C4_SuccessfulFlowOrder ==
  \A s \in Sessions :
    /\ \A f \in FormSteps : calls[s][f] <= 1
    /\ (\E f \in AvatarSteps : calls[s][f] > 0)
         => ConfigurationSteps \subseteq completed[s]
    /\ closeCalls[s] >= 1 => "uploadAcatar" \in completed[s]
    /\ opc[s] = "resolved" =>
         /\ \A f \in FormSteps : calls[s][f] = 1
         /\ \A t \in FieldSteps : task[s][t] = "resolved"
         /\ completed[s] = ConfigurationSteps \cup AvatarSteps
         /\ closeCalls[s] = 1
         /\ browser[s] = "closed"

C4_Witness == \E s \in Sessions : opc[s] = "resolved" /\ dpc = "done"

\* C5: whenever createGithubAccount settles for an email, by success or by
\* any failure, the browser launched for that email has been closed.
C5_ClosedOnEveryExit ==
  \A s \in Sessions : Settled(s) => browser[s] = "closed"

\* The lines the driver and createGithubAccount print for the sessions of
\* seq: the email, then the error once the driver has caught it.
RECURSIVE ExpectedLog(_)
ExpectedLog(seq) ==
  IF seq = <<>> THEN <<>>
  ELSE LET s == Head(seq)
       IN  <<  <<"Account email:", worklist[s]>>  >>
           \o (IF opc[s] = "rejected" /\ idx > s THEN << <<oerr[s]>> >> ELSE <<>>)
           \o ExpectedLog(Tail(seq))

\* C6: an error raised by the orchestrator for one email is caught by the
\* driver, logged and not rethrown: the driver does not stop and goes on
\* with the entries after that email.
C6_ErrorLoggedBatchGoesOn ==
  /\ dpc \in {"loop", "await", "done"}
  /\ log = ExpectedLog(invoked)
  /\ \A s \in Sessions :
       opc[s] = "rejected" =>
         \/ dpc = "await" /\ idx = s
         \/ idx > s /\ oerr[s] \in Errors

C6_Witness ==
  \E s \in Sessions :
    /\ opc[s] = "rejected"
    /\ idx > s
    /\ \E r \in Sessions : r > s /\ opc[r] # "idle"

\* The positions of the non-empty entries of the worklist, in order.
NonEmptyPositions ==
  SelectSeq([i \in 1..Len(worklist) |-> i], LAMBDA i : worklist[i] # <<>>)

\* C7: the driver invokes the orchestrator for the non-empty entries in
\* worklist order, once per entry, never again after a failure and skipping
\* none, and not before the call for the earlier entry has settled.
C7_InvokedInOrderOncePerEntry ==
  /\ Len(invoked) <= Len(NonEmptyPositions)
  /\ invoked = SubSeq(NonEmptyPositions, 1, Len(invoked))
  /\ \A i \in 1..(Len(invoked) - 1) : Settled(invoked[i])
  /\ \A s \in Sessions :
       (\A i \in 1..Len(invoked) : invoked[i] # s) => opc[s] = "idle"
  /\ dpc = "done" => invoked = NonEmptyPositions

C7_Witness ==
  /\ dpc = "done"
  /\ Len(invoked) = 2
  /\ opc[invoked[1]] = "rejected"
  /\ opc[invoked[2]] = "resolved"

\* The first candidate whose visibility evaluation returns true, 0 if none.
FirstVisible(vis) ==
  IF \E i \in 1..Len(vis) : vis[i]
  THEN CHOOSE i \in 1..Len(vis) : vis[i] /\ \A j \in 1..(i - 1) : ~vis[j]
  ELSE 0

\* C8: clickVisibleContinue performs at most one click, on the first
\* candidate in list order whose visibility check reports visible; the
\* candidates after it are neither evaluated nor clicked; with no visible
\* candidate it performs no click and returns.
C8_ClicksFirstVisibleOnly ==
  clicker.pc = "returned" =>
    LET f == FirstVisible(buttons)
    IN  /\ Len(clicker.clicked) <= 1
        /\ f = 0 => /\ clicker.clicked = <<>>
                    /\ clicker.evaluated = [i \in 1..Len(buttons) |-> i]
        /\ f > 0 => /\ clicker.clicked = <<f>>
                    /\ clicker.evaluated = [i \in 1..f |-> i]

C8_Witness ==
  /\ clicker.pc = "returned"
  /\ buttons = <<FALSE, TRUE, TRUE>>
  /\ clicker.clicked = <<2>>

\* C9: the captcha-wait step has no timeout: once the "Create account"
\* button is visible the step never fails because a wait bound elapsed.
C9_CaptchaWaitNeverTimesOut ==
  \A s \in Sessions : terr[s]["waitForUserSolvedCaptcha"] # "TimeoutError"

\* C10: under every interleaving of the five field steps, the text a step
\* types reaches the page as one uninterrupted sequence, with no key of
\* another step in between.
C10_TypedTextUninterrupted ==
  \A s \in Sessions : interleaved[s] = {}

\* C11: when the email step finds the paragraph present and not hidden, the
\* value the driver's catch receives is "Email exist", which no generic
\* error (timeout, navigation failure, programming error) equals.
C11_EmailExistReachesCatch ==
  \A s \in Sessions : EmailExistFailure(s) => oerr[s] = "Email exist"

\* The emails createGithubAccount was called with, in order.
Passed == [i \in 1..Len(invoked) |-> worklist[invoked[i]]]

\* The first and last position of each comma-free stretch of str that holds
\* a character other than white space, white space at its ends left out.
Stretches(str) ==
  LET cuts == {0, Len(str) + 1} \cup {i \in 1..Len(str) : str[i] = ","}
      ink(lo, hi) == {i \in (lo + 1)..(hi - 1) : str[i] \notin WhiteSpace}
      least(S) == CHOOSE i \in S : \A j \in S : i <= j
      most(S) == CHOOSE i \in S : \A j \in S : i >= j
  IN  { <<least(ink(lo, hi)), most(ink(lo, hi))>> :
          <<lo, hi>> \in { c \in cuts \X cuts :
                             /\ c[1] < c[2]
                             /\ \A m \in cuts : ~(c[1] < m /\ m < c[2])
                             /\ ink(c[1], c[2]) # {} } }

\* The trimmed non-empty segments of str, in the order they stand in it.
Segments(str) ==
  LET S == Stretches(str)
      order == CHOOSE f \in [1..Cardinality(S) -> S] :
                 \A i, j \in 1..Cardinality(S) : i < j => f[i][1] < f[j][1]
  IN  [i \in 1..Cardinality(S) |-> SubSeq(str, order[i][1], order[i][2])]

RECURSIVE SegmentsOfAll(_)
SegmentsOfAll(ls) ==
  IF ls = <<>> THEN <<>> ELSE Segments(Head(ls)) \o SegmentsOfAll(Tail(ls))

\* C12: the emails passed to the orchestrator are the comma-separated
\* segments of the line, each trimmed of surrounding white space, in their
\* order, those empty after trimming dropped and duplicates kept: at every
\* moment a prefix of them, all of them once the driver has returned.
C12_PassedAreTrimmedSegments ==
  LET expected == SegmentsOfAll(lines)
  IN  /\ Len(Passed) <= Len(expected)
      /\ Passed = SubSeq(expected, 1, Len(Passed))
      /\ dpc = "done" => Passed = expected

C12_Witness ==
  /\ dpc = "done"
  /\ lines = << <<" ", ",", "a">> >>
  /\ Passed = << <<"a">> >>

\* The position of the first "@" of str, one past its end if it has none.
FirstAt(str) ==
  IF \E i \in 1..Len(str) : str[i] = "@"
  THEN CHOOSE i \in 1..Len(str) :
         str[i] = "@" /\ \A j \in 1..(i - 1) : str[j] # "@"
  ELSE Len(str) + 1

\* C13: the derived username is the part of the email before the first "@"
\* with every character outside [a-zA-Z0-9] replaced by "x" and every
\* alphanumeric character kept in place: it is as long as the local part,
\* and nothing of the domain part is in it.
C13_UsernameFromLocalPart ==
  derived.pc = "returned" =>
    LET k == FirstAt(derived.email)
    IN  /\ Len(derived.username) = k - 1
        /\ \A i \in 1..(k - 1) :
             derived.username[i] =
               IF derived.email[i] \in AlphaNum THEN derived.email[i] ELSE "x"

C13_Witness ==
  /\ derived.pc = "returned"
  /\ derived.email = <<".", "+", "@">>
  /\ derived.username = <<"x", "x">>

\* C14: generatePassword has no error conditions: for every length <= 0,
\* zero and every negative length, it returns the empty string without
\* raising.
C14_EmptyForNonPositiveLength ==
  (generated.pc # "idle" /\ generated.length <= 0) =>
    (generated.pc = "returned" /\ generated.password = <<>>)

\* C14 as amended: generatePassword returns the empty string for length 0
\* and raises RangeError for every negative length.
C14_EmptyForZeroRaisesForNegative ==
  generated.pc # "idle" =>
    /\ generated.length = 0 =>
         (generated.pc = "returned" /\ generated.password = <<>>)
    /\ generated.length < 0 => generated.pc = "raised"
    /\ generated.length > 0 =>
         (generated.pc = "returned" /\ Len(generated.password) = generated.length)

C14_Witness ==
  /\ generated.pc = "raised"
  /\ generated.length = 0 - 1

\* C15: every candidate a field step hands to clickVisibleContinue was not
\* disabled when the step collected it, so that no click of the email,
\* username, password, reject-announcements or captcha step lands on a
\* disabled control.
C15_CandidatesNotDisabled ==
  \A s \in Sessions : handed[s].candidate = {} /\ handed[s].clicked = {}

\* The sessions after s the driver has called createGithubAccount for.
StartedAfter(s) == {r \in Sessions : r > s /\ opc[r] # "idle"}

\* C16: once createGithubAccount has settled for one email and the driver
\* has started the next, no form step of the earlier email is pending any
\* more, also when one of the five field steps failed while the others were
\* in flight.
C16_NoStepPendingOnceNextStarted ==
  \A s \in Sessions :
    (Settled(s) /\ StartedAfter(s) # {}) =>
      \A t \in FieldSteps : task[s][t] # "pending"

\* The error lines of the log: the catch prints the error value alone.
LoggedErrors == SelectSeq(log, LAMBDA l : Len(l) = 1)

\* The sessions whose rejection the driver's catch has handled.
Caught == {s \in Sessions : opc[s] = "rejected" /\ idx > s}

Failed(s) == {t \in FieldSteps : task[s][t] = "rejected"}

\* C17: every error raised inside one account's orchestration is logged by
\* the driver's catch; when two or more of the five field steps fail for the
\* same email, each of their errors is logged.
C17_EveryErrorLogged ==
  \A s \in Caught :
    /\ \E i \in 1..Len(LoggedErrors) : LoggedErrors[i] = <<oerr[s]>>
    /\ Cardinality(Failed(s)) <= Len(LoggedErrors)

\* C17 as amended: the first error raised inside one account's
\* orchestration reaches the driver's catch and is logged there, once; the
\* error of a field step that fails after Promise.all has rejected changes
\* nothing and is not logged.
C17_FirstErrorLoggedOnce ==
  /\ [](/\ Len(LoggedErrors) = Cardinality(Caught)
        /\ \A s \in Caught :
             \E i \in 1..Len(LoggedErrors) : LoggedErrors[i] = <<oerr[s]>>)
  /\ [][\A s \in Sessions :
          /\ (opc[s] = "fields" /\ opc'[s] = "rejected") =>
               /\ Failed(s) = {}
               /\ \E t \in FieldSteps :
                    /\ task'[s][t] = "rejected"
                    /\ oerr'[s] = terr'[s][t]
          /\ opc[s] = "rejected" =>
               (opc'[s] = "rejected" /\ oerr'[s] = oerr[s])]_vars

C17_Witness ==
  \E s \in Caught :
    /\ Cardinality(Failed(s)) >= 2
    /\ \E t \in Failed(s) : terr[s][t] # oerr[s]
    /\ Len(LoggedErrors) = 1

\* The steps of the chain called and not returned from.
Unfinished(s) ==
  {f \in ConfigurationSteps \cup AvatarSteps :
     calls[s][f] > 0 /\ f \notin completed[s]}

Halted ==
  /\ dpc = "await"
  /\ opc[idx] = "continueForFree"
  /\ sub[idx] = "unclicked"

\* C19: provided every wait of the flow resolves or fails in the end, the
\* driver calls createGithubAccount for every non-empty entry and then
\* returns; a wait without timeout that never resolves halts the batch at
\* that email, and as long as the flow of an email has not settled the
\* driver neither moves on nor logs an error.
C19_BatchEndsUnlessHalted ==
  /\ <>(dpc = "done" /\ invoked = NonEmptyPositions) \/ <>[]Halted
  /\ [][(dpc = "await" /\ ~Settled(idx)) =>
          (dpc' = "await" /\ idx' = idx /\ log' = log)]_vars

C19_Witness ==
  /\ dpc = "done"
  /\ Len(worklist) = 2
  /\ worklist[1] = <<>>
  /\ invoked = <<2>>
  /\ opc[2] = "resolved"

\* The order of the sub-steps of setAccountConfiguration and of
\* changeUserAvatar.
SubStepOrder ==
  <<"chooseAccountConfigurations", "continueRecommendedPlanPage",
    "continueForFree", "openAccountNavigationSidebar", "openSettingsPage",
    "showUploadButton", "uploadAcatar">>

\* C20: the three sub-steps of account configuration and then the sub-steps
\* of the avatar change (sidebar, settings, upload button, upload, submit)
\* run in that order; a sub-step is called only after the one before it has
\* returned, which a sub-step with a wait for the navigation does from that
\* wait only; after a failure no later sub-step is called.
C20_SubStepsInOrder ==
  /\ [](\A s \in Sessions :
          /\ \A i \in 2..Len(SubStepOrder) :
               calls[s][SubStepOrder[i]] > 0 => SubStepOrder[i - 1] \in completed[s]
          /\ calls[s]["clickUploadPhoto"] > 0 => "showUploadButton" \in completed[s]
          /\ calls[s]["submitAvatar"] > 0 =>
               /\ calls[s]["clickUploadPhoto"] > 0
               /\ sub[s] = "submit" \/ "uploadAcatar" \in completed[s]
          /\ \A f \in completed[s] : calls[s][f] = 1
          /\ Cardinality(Unfinished(s)) <= 1)
  /\ [][\A s \in Sessions :
          \A f \in {"chooseAccountConfigurations", "continueRecommendedPlanPage",
                     "continueForFree", "openSettingsPage"} :
            (f \notin completed[s] /\ f \in completed'[s]) =>
              sub[s] \in {"clicked", "unclicked"}]_vars

C20_Witness ==
  \E s \in Sessions :
    /\ opc[s] = "rejected"
    /\ Unfinished(s) = {"openSettingsPage"}
    /\ completed[s] = {"chooseAccountConfigurations", "continueRecommendedPlanPage",
                       "continueForFree", "openAccountNavigationSidebar"}

\* C21: in uploadAcatar the wait for the native file dialog is registered
\* before the click on "Upload a photo..." is issued, so that the dialog is
\* never missed; the image path is supplied only after the dialog has been
\* obtained and the click has completed; "Set new profile picture" is
\* clicked only after the file has been accepted.
C21_DialogAwaitedBeforeClick ==
  \A s \in Sessions :
    /\ upload[s].click \in {"clicked", "done"} =>
         upload[s].chooser \in {"waiting", "obtained"}
    /\ upload[s].chooser # "missed"
    /\ upload[s].chooser = "obtained" => upload[s].click \in {"clicked", "done"}
    /\ (sub[s] \in {"accept", "submit"} \/ upload[s].file = "accepted") =>
         (upload[s].chooser = "obtained" /\ upload[s].click = "done")
    /\ calls[s]["submitAvatar"] > 0 => upload[s].file = "accepted"
    /\ "uploadAcatar" \in completed[s] => calls[s]["submitAvatar"] = 1

C21_Witness ==
  \E s \in Sessions :
    /\ opc[s] = "resolved"
    /\ upload[s] = [chooser |-> "obtained", click |-> "done", file |-> "accepted"]

====
